---- MODULE Spec2Model ----
(***************************************************************************)
(* A model of the example application described in README.md: the Redux    *)
(* store that combines the counter slice with the pokemonApi slice, the    *)
(* Counter component, the getPokemonByName query hook, the optional        *)
(* setupListeners call, and the linter configuration of .eslintrc.js.      *)
(*                                                                         *)
(* JavaScript numbers are modelled as integers: the counter only ever      *)
(* holds sums of the integer payloads drawn below.                         *)
(***************************************************************************)
EXTENDS Integers, Sequences, FiniteSets, TLC

(***************************************************************************)
(* Bounds of the model.                                                    *)
(***************************************************************************)
\* Dispatches of one run of the counter-only specification.
MaxDispatch == 4
\* Largest |counter.value| in the specification of the whole store.
MaxValue == 2
\* Components subscribed to one query argument at a time.
MaxSubs == 2
\* Length of the batch of counter actions dispatched in every order.
MaxBatch == 3

\* Payloads passed to incrementByAmount.
Payloads == {-2, 3}
\* Arguments passed to useGetPokemonByNameQuery.
Names == {"bulbasaur", "missingno"}
\* Error outcomes of a request (fetchBaseQuery: transport failure, HTTP status).
Errors == {"FETCH_ERROR"}
\* Action types no slice of the store defines.
OtherTypes == {"counter/reset", "other/increment"}
\* The value of an absent field.
Undefined == "undefined"

VARIABLES
  state,          \* the store's state: [counter, pokemonApi]
  count,          \* the Counter component's rendered `count`
  dispatched,     \* the actions the last operation passed to store.dispatch
  ran,            \* the counter case reducers those dispatches ran
  op,             \* the operation that made the last step
  flip,           \* toggled by every operation
  nInc, nDec, sumAmt, nClicks, nDispatched,   \* history of the counter-only specification
  subs,           \* subscribed components per query argument
  inflight,       \* requests the base query has issued and not settled
  settled,        \* per query argument: a request for it has settled
  listenersSetup, \* setupListeners(store.dispatch) has been called
  apiOptions,     \* refetchOnFocus / refetchOnReconnect
  batch, todo, start,                \* the batch of the commutation specification
  presets, linted, report            \* the linter run

vars == <<state, count, dispatched, ran, op, flip, nInc, nDec, sumAmt, nClicks,
          nDispatched, subs, inflight, settled, listenersSetup, apiOptions, batch, todo, start,
          presets, linted, report>>

storeVars == <<state, count, dispatched, ran, op, flip>>
tallyVars == <<nInc, nDec, sumAmt, nClicks, nDispatched>>
apiVars == <<subs, inflight, settled, listenersSetup, apiOptions>>
batchVars == <<batch, todo, start>>
lintVars == <<presets, linted, report>>

(***************************************************************************)
(* redux/counter/counterSlice.ts                                           *)
(***************************************************************************)
SliceName == "counter"

initialState_one == [value |-> 1]

initialState == [value |-> 0]

increment(s) == [s EXCEPT !.value = @ + 1]

decrement_copied(s) == [s EXCEPT !.value = @ + 1]

decrement(s) == [s EXCEPT !.value = @ - 1]

incrementByAmount_assign(s, action) == [s EXCEPT !.value = action.payload]

incrementByAmount(s, action) == [s EXCEPT !.value = @ + action.payload]

\* The keys of the `reducers` object.
ReducerKeys == {"increment", "decrement", "incrementByAmount"}

ActionType_noKey(k) == SliceName

\* createSlice: the action type generated for case reducer k.
ActionType(k) == SliceName \o "/" \o k

\* The action creator generated for case reducer k, applied to a payload.
MakeAction(k, payload) == [type |-> ActionType(k), payload |-> payload]

\* The names destructured from counterSlice.actions.
ExportedCreators == {"increment", "decrement", "incrementByAmount"}

\* The case reducers the slice reducer runs for an action.
CaseReducersFor(action) == {k \in ReducerKeys : ActionType(k) = action.type}

\* counterSlice.reducer
counterReducer(s, action) ==
  LET s1 == IF "increment" \in CaseReducersFor(action) THEN increment(s) ELSE s
      s2 == IF "decrement" \in CaseReducersFor(action) THEN decrement(s1) ELSE s1
  IN  IF "incrementByAmount" \in CaseReducersFor(action)
      THEN incrementByAmount(s2, action) ELSE s2

(***************************************************************************)
(* services/pokemon.ts                                                     *)
(***************************************************************************)
reducerPath == "pokemonApi"

baseUrl == "https://pokeapi.co/api/v2/"

query_noName(name) == "pokemon/"

\* The endpoint's query function.
query(name) == "pokemon/" \o name

\* The URL fetchBaseQuery requests for an argument.
RequestUrl(name) == baseUrl \o query(name)

PendingType == reducerPath \o "/executeQuery/pending"
FulfilledType == reducerPath \o "/executeQuery/fulfilled"
RejectedType == reducerPath \o "/executeQuery/rejected"

UninitializedEntry == [status |-> "uninitialized", data |-> Undefined, error |-> Undefined]

apiReducer_resultAsError(s, action) ==
  IF action.type = PendingType
  THEN [s EXCEPT !.queries[action.arg].status = "pending"]
  ELSE IF action.type \in {FulfilledType, RejectedType}
  THEN [s EXCEPT !.queries[action.arg].status = "rejected",
                 !.queries[action.arg].error = action.result]
  ELSE s

apiReducer_resets(s, action) ==
  IF action.type = PendingType
  THEN [s EXCEPT !.queries[action.arg].status = "pending"]
  ELSE IF action.type = FulfilledType
  THEN [s EXCEPT !.queries[action.arg] =
          [status |-> "fulfilled", data |-> action.result, error |-> Undefined]]
  ELSE IF action.type = RejectedType
  THEN [s EXCEPT !.queries[action.arg].status = "rejected",
                 !.queries[action.arg].error = action.result]
  ELSE [queries |-> [n \in Names |-> UninitializedEntry]]

\* pokemonApi.reducer: the cache entry of each query argument.
apiReducer(s, action) ==
  IF action.type = PendingType
  THEN [s EXCEPT !.queries[action.arg].status = "pending"]
  ELSE IF action.type = FulfilledType
  THEN [s EXCEPT !.queries[action.arg] =
          [status |-> "fulfilled", data |-> action.result, error |-> Undefined]]
  ELSE IF action.type = RejectedType
  THEN [s EXCEPT !.queries[action.arg].status = "rejected",
                 !.queries[action.arg].error = action.result]
  ELSE s

\* What the query hook returns for a cache entry.
isLoading(entry) == entry.status = "pending" /\ entry.data = Undefined

HookResult(entry) ==
  [data |-> entry.data, error |-> entry.error, isLoading |-> isLoading(entry)]

(***************************************************************************)
(* redux/store.ts                                                          *)
(***************************************************************************)
\* configureStore's `reducer` object: one reducer per slice of the state.
rootReducer(s, action) ==
  [counter |-> counterReducer(s.counter, action),
   pokemonApi |-> apiReducer(s.pokemonApi, action)]

\* The state configureStore builds from the slices' initial states.
StoreInit ==
  [counter |-> initialState,
   pokemonApi |-> [queries |-> [n \in Names |-> UninitializedEntry]]]

(***************************************************************************)
(* components/Counter.tsx                                                  *)
(***************************************************************************)
selectCount_stale(s) == initialState.value

\* The selector passed to useSelector.
selectCount(s) == s.counter.value

(***************************************************************************)
(* .eslintrc.js                                                            *)
(***************************************************************************)
\* The `extends` list.
extends ==
  <<"react-app", "react-app/jest", "plugin:react/recommended", "eslint:recommended",
    "plugin:@typescript-eslint/eslint-recommended",
    "plugin:@typescript-eslint/recommended", "google", "prettier">>

\* The `rules` object, each value as written.
rules ==
  [r \in {"react/react-in-jsx-scope", "require-jsdoc", "no-console",
          "prettier/prettier", "linebreak-style"} |->
     CASE r = "react/react-in-jsx-scope" -> "off"
       [] r = "require-jsdoc" -> "off"
       [] r = "no-console" -> "1"
       [] r = "prettier/prettier" -> "2"
       [] r = "linebreak-style" -> "off"]

\* ESLint's reading of a rule value: 0 off, 1 warning, 2 error.
Severity(v) ==
  CASE v \in {"off", "0"} -> 0
    [] v \in {"warn", "1"} -> 1
    [] v \in {"error", "2"} -> 2

\* The rules of a run: those the configuration overrides and one it does not.
LintRules == DOMAIN rules \cup {"no-unused-vars"}

EffectiveSeverity_presetsWin(r) == presets[r]

\* The severity a rule runs with: the configuration's own `rules` entry wins
\* over whatever the extended rule sets give it.
EffectiveSeverity(r) == IF r \in DOMAIN rules THEN Severity(rules[r]) ELSE presets[r]

\* The linter runs on a file that breaks the rules of `broken`.
Lint(broken) ==
  /\ linted' = broken
  /\ report' = {[rule |-> r, severity |-> EffectiveSeverity(r)] :
                  r \in {b \in broken : EffectiveSeverity(b) > 0}}
  /\ UNCHANGED <<presets, storeVars, tallyVars, apiVars, batchVars>>

(***************************************************************************)
(* Operations.  Every operation dispatches a (possibly empty) sequence of  *)
(* actions; the store reduces them in order and the subscribed Counter     *)
(* component re-renders with the selected value.                           *)
(***************************************************************************)
RECURSIVE ReduceAll(_, _)
\* store.dispatch applied to each action of a sequence in turn.
ReduceAll(s, acts) ==
  IF acts = <<>> THEN s ELSE ReduceAll(rootReducer(s, Head(acts)), Tail(acts))

RanIn(acts) == UNION {CaseReducersFor(acts[i]) : i \in DOMAIN acts}

Operate(o, acts) ==
  /\ dispatched' = acts
  /\ state' = ReduceAll(state, acts)
  /\ count' = selectCount(state')
  /\ ran' = RanIn(acts)
  /\ op' = o
  /\ flip' = ~flip

\* The arguments each action creator is called with.
Args(k) == IF k = "incrementByAmount" THEN Payloads ELSE {0}

InRange(v) == -MaxValue <= v /\ v <= MaxValue

\* dispatch(creator(n)) from application code.
DispatchCounter(k, n) ==
  /\ Operate("dispatch", <<MakeAction(k, n)>>)
  /\ UNCHANGED <<apiVars, batchVars, lintVars>>

\* The Increment button's onClick: dispatch(increment()).
ClickIncrement ==
  /\ Operate("click", <<MakeAction("increment", 0)>>)
  /\ UNCHANGED <<apiVars, batchVars, lintVars>>

\* dispatch of an action no slice defines.
DispatchUnknown(t) ==
  /\ Operate("dispatch", <<[type |-> t, payload |-> 0]>>)
  /\ UNCHANGED <<apiVars, batchVars, lintVars>>

(***************************************************************************)
(* The store as a whole (counter values capped at MaxValue).               *)
(***************************************************************************)
Dispatch(k, n) ==
  /\ InRange(counterReducer(state.counter, MakeAction(k, n)).value)
  /\ DispatchCounter(k, n)
  /\ UNCHANGED tallyVars

Click ==
  /\ InRange(state.counter.value + 1)
  /\ ClickIncrement
  /\ UNCHANGED tallyVars

DispatchOther(t) ==
  /\ DispatchUnknown(t)
  /\ UNCHANGED tallyVars

Request(n) == [url |-> RequestUrl(n), arg |-> n]

PendingAction(n) == [type |-> PendingType, arg |-> n, result |-> Undefined]

\* The query thunk's condition: no request while one is pending or once the
\* entry has been fulfilled.
NeedsFetch(entry) == entry.status # "pending" /\ entry.data = Undefined

\* A component renders useGetPokemonByNameQuery(n): it subscribes to the cache
\* entry of n and the hook starts the request the entry needs.
UseQuery(n) ==
  /\ subs[n] < MaxSubs
  /\ subs' = [subs EXCEPT ![n] = @ + 1]
  /\ IF NeedsFetch(state.pokemonApi.queries[n])
     THEN /\ Operate("useQuery", <<PendingAction(n)>>)
          /\ inflight' = inflight \cup {Request(n)}
     ELSE /\ Operate("useQuery", <<>>)
          /\ inflight' = inflight
  /\ UNCHANGED <<settled, listenersSetup, apiOptions, tallyVars, batchVars, lintVars>>

\* The response of a request arrives: the Pokemon named by the argument.
Fulfil(r) ==
  /\ r \in inflight
  /\ inflight' = inflight \ {r}
  /\ settled' = [settled EXCEPT ![r.arg] = TRUE]
  /\ Operate("settle", <<[type |-> FulfilledType, arg |-> r.arg, result |-> r.arg]>>)
  /\ UNCHANGED <<subs, listenersSetup, apiOptions, tallyVars, batchVars, lintVars>>

\* A request fails.
Reject(r, e) ==
  /\ r \in inflight
  /\ inflight' = inflight \ {r}
  /\ settled' = [settled EXCEPT ![r.arg] = TRUE]
  /\ Operate("settle", <<[type |-> RejectedType, arg |-> r.arg, result |-> e]>>)
  /\ UNCHANGED <<subs, listenersSetup, apiOptions, tallyVars, batchVars, lintVars>>

\* An outstanding request settles, one way or the other.
Settle ==
  \/ \E r \in inflight : Fulfil(r)
  \/ \E r \in inflight : \E e \in Errors : Reject(r, e)

\* setupListeners(store.dispatch)
SetupListeners ==
  /\ ~listenersSetup
  /\ listenersSetup' = TRUE
  /\ Operate("setupListeners", <<>>)
  /\ UNCHANGED <<subs, inflight, settled, apiOptions, tallyVars, batchVars, lintVars>>

RECURSIVE SetToSeq(_)
SetToSeq(S) ==
  IF S = {} THEN <<>>
  ELSE LET x == CHOOSE y \in S : TRUE IN <<x>> \o SetToSeq(S \ {x})

\* The subscribed, settled entries an event with option `opt` refetches.
Refetched(opt) ==
  {n \in Names : /\ apiOptions[opt]
                 /\ subs[n] > 0
                 /\ state.pokemonApi.queries[n].status \in {"fulfilled", "rejected"}}

PendingActions(names) == [i \in DOMAIN names |-> PendingAction(names[i])]

BrowserEvent_unguarded(o, type, opt) ==
  /\ Operate(o, <<[type |-> type]>> \o PendingActions(SetToSeq(Refetched(opt))))
  /\ inflight' = inflight \cup {Request(n) : n \in Refetched(opt)}
  /\ UNCHANGED <<subs, settled, listenersSetup, apiOptions, tallyVars, batchVars, lintVars>>

\* A browser event: with the listeners set up its handler dispatches the event's
\* action and the api middleware refetches; without them nothing listens.
BrowserEvent(o, type, opt) ==
  /\ IF listenersSetup
     THEN /\ Operate(o, <<[type |-> type]>> \o PendingActions(SetToSeq(Refetched(opt))))
          /\ inflight' = inflight \cup {Request(n) : n \in Refetched(opt)}
     ELSE /\ Operate(o, <<>>)
          /\ inflight' = inflight
  /\ UNCHANGED <<subs, settled, listenersSetup, apiOptions, tallyVars, batchVars, lintVars>>

\* The window gains focus.
Focus == BrowserEvent("focus", "__rtkq/focused", "refetchOnFocus")

\* The network connection returns.
Online == BrowserEvent("online", "__rtkq/online", "refetchOnReconnect")

\* Everything but the store's state, as it is once the application has rendered.
Mounted ==
  /\ count = selectCount(state)
  /\ dispatched = <<>>
  /\ ran = {}
  /\ op = "init"
  /\ flip = FALSE
  /\ nInc = 0 /\ nDec = 0 /\ sumAmt = 0 /\ nClicks = 0 /\ nDispatched = 0
  /\ subs = [n \in Names |-> 0]
  /\ inflight = {}
  /\ settled = [n \in Names |-> FALSE]
  /\ listenersSetup = FALSE

StoreStart == state = StoreInit /\ Mounted

NoBatch == batch = <<>> /\ todo = <<>> /\ start = 0

NoLint == presets = [r \in LintRules |-> 0] /\ linted = {} /\ report = {}

NoOptions == apiOptions = [o \in {"refetchOnFocus", "refetchOnReconnect"} |-> FALSE]

\* The store as configureStore leaves it.  The README sets neither refetch
\* option and calls setupListeners as the module loads; the options are drawn
\* here and the call is an operation of its own, so that runs with and without
\* them exist.  Components stay mounted once they have rendered.
Init ==
  /\ StoreStart
  /\ apiOptions \in [{"refetchOnFocus", "refetchOnReconnect"} -> BOOLEAN]
  /\ NoBatch
  /\ NoLint

Next ==
  \/ \E k \in ReducerKeys : \E n \in Args(k) : Dispatch(k, n)
  \/ Click
  \/ \E t \in OtherTypes : DispatchOther(t)
  \/ \E n \in Names : UseQuery(n)
  \/ Settle
  \/ SetupListeners
  \/ Focus
  \/ Online

Spec == Init /\ [][Next]_vars

\* The request for one argument settles.
SettleFor(n) == Fulfil(Request(n)) \/ \E e \in Errors : Reject(Request(n), e)

(***************************************************************************)
(* The query hook, the transport and the browser events alone.             *)
(***************************************************************************)
NextQuery ==
  \/ \E n \in Names : UseQuery(n)
  \/ Settle
  \/ SetupListeners
  \/ Focus
  \/ Online

\* The transport answers or fails every request it was given.
SpecQuery == Init /\ [][NextQuery]_vars /\ \A n \in Names : WF_vars(SettleFor(n))

(***************************************************************************)
(* The counter alone, with the history of what was dispatched.             *)
(***************************************************************************)
Tally(o, k, n) ==
  /\ nDispatched' = nDispatched + 1
  /\ nClicks' = IF o = "click" THEN nClicks + 1 ELSE nClicks
  /\ nInc' = IF k = "increment" THEN nInc + 1 ELSE nInc
  /\ nDec' = IF k = "decrement" THEN nDec + 1 ELSE nDec
  /\ sumAmt' = IF k = "incrementByAmount" THEN sumAmt + n ELSE sumAmt

CountedDispatch(k, n) ==
  /\ nDispatched < MaxDispatch
  /\ DispatchCounter(k, n)
  /\ Tally("dispatch", k, n)

CountedClick ==
  /\ nDispatched < MaxDispatch
  /\ ClickIncrement
  /\ Tally("click", "increment", 0)

CountedOther(t) ==
  /\ nDispatched < MaxDispatch
  /\ DispatchUnknown(t)
  /\ Tally("dispatch", t, 0)

InitCounter == StoreStart /\ NoOptions /\ NoBatch /\ NoLint

NextCounter ==
  \/ \E k \in ReducerKeys : \E n \in Args(k) : CountedDispatch(k, n)
  \/ CountedClick
  \/ \E t \in OtherTypes : CountedOther(t)

SpecCounter == InitCounter /\ [][NextCounter]_vars

(***************************************************************************)
(* A batch of counter actions dispatched in any order.                     *)
(***************************************************************************)
CounterActions == UNION {{MakeAction(k, n) : n \in Args(k)} : k \in ReducerKeys}

Batches == UNION {[1..len -> CounterActions] : len \in 0..MaxBatch}

StartValues == {-1, 0, 4}

Remove(seq, i) == [j \in 1..(Len(seq) - 1) |-> IF j < i THEN seq[j] ELSE seq[j + 1]]

RECURSIVE ReduceCounter(_, _)
\* counterSlice.reducer applied to a sequence of actions in the order given.
ReduceCounter(s, acts) ==
  IF acts = <<>> THEN s ELSE ReduceCounter(counterReducer(s, Head(acts)), Tail(acts))

\* Any action of the batch not yet dispatched is dispatched next.
DispatchFromBatch(i) ==
  /\ i \in DOMAIN todo
  /\ todo' = Remove(todo, i)
  /\ Operate("dispatch", <<todo[i]>>)
  /\ UNCHANGED <<batch, start, tallyVars, apiVars, lintVars>>

\* The batch starts from a state earlier dispatches have left.
InitCommute ==
  /\ start \in StartValues
  /\ state = [StoreInit EXCEPT !.counter.value = start]
  /\ Mounted /\ NoOptions /\ NoLint
  /\ batch \in Batches
  /\ todo = batch

NextCommute == \E i \in 1..MaxBatch : DispatchFromBatch(i)

SpecCommute == InitCommute /\ [][NextCommute]_vars

(***************************************************************************)
(* Linter runs.                                                            *)
(***************************************************************************)
InitLint ==
  /\ StoreStart /\ NoOptions /\ NoBatch
  /\ presets \in [LintRules -> 0..2]
  /\ linted = {}
  /\ report = {}

NextLint == \E broken \in SUBSET LintRules : Lint(broken)

SpecLint == InitLint /\ [][NextLint]_vars

(***************************************************************************)
(* Properties.                                                             *)
(***************************************************************************)
CounterTypes == {"counter/increment", "counter/decrement", "counter/incrementByAmount"}

Entry(n) == state.pokemonApi.queries[n]

\* C1: for every counter state and every payload n, dispatching increment adds 1
\* to counter.value, decrement subtracts 1 and incrementByAmount(n) adds n.
C1_ReducersExact ==
  [][\A k \in {"increment", "decrement", "incrementByAmount"} : \A n \in Payloads \cup {0} :
       (flip' # flip /\ dispatched' = <<[type |-> "counter/" \o k, payload |-> n]>>)
         => state'.counter.value =
              state.counter.value
                + (CASE k = "increment" -> 1 [] k = "decrement" -> -1 [] OTHER -> n)]_vars

C1_Witness ==
  /\ dispatched = <<[type |-> "counter/incrementByAmount", payload |-> 3]>>
  /\ state.counter.value = 1
  /\ nDec > 0

C3_CreatorPerCaseReducer ==
  /\ ExportedCreators = {"increment", "decrement", "incrementByAmount"}
  /\ ExportedCreators = ReducerKeys
  /\ \A k \in ExportedCreators : \A n \in Payloads \cup {0} :
       dispatched = <<MakeAction(k, n)>> => ran = {k}

C3_Witness ==
  /\ dispatched = <<MakeAction("decrement", 0)>>
  /\ ran = {"decrement"}
  /\ state.counter.value = -1

\* C8: the count the Counter component reads through its selector always equals
\* the store's counter.value; each click on the Increment button dispatches
\* exactly one increment action and raises the count by one, so k clicks and
\* nothing else leave the count k above where it started.
C8_CounterComponent ==
  /\ [](count = state.counter.value)
  /\ [](nClicks = nDispatched => count = nClicks)
  /\ [][(flip' # flip /\ op' = "click")
          => /\ dispatched' = <<[type |-> "counter/increment", payload |-> 0]>>
             /\ count' = count + 1]_vars

C8_Witness == op = "click" /\ nClicks = 2 /\ nDispatched = 4 /\ count = 0

\* C9: dispatching a counter action leaves the pokemonApi slice unchanged, and
\* an operation that dispatches no increment, decrement or incrementByAmount
\* action (pokemonApi actions included) leaves the counter slice unchanged.
C9_SlicesDisjoint ==
  [][flip' # flip =>
       /\ (/\ dispatched' # <<>>
           /\ \A i \in DOMAIN dispatched' : dispatched'[i].type \in CounterTypes)
            => state'.pokemonApi = state.pokemonApi
       /\ (\A i \in DOMAIN dispatched' : dispatched'[i].type \notin CounterTypes)
            => state'.counter = state.counter]_vars

C9_Witness ==
  /\ Len(dispatched) = 1
  /\ dispatched[1].type = "counter/incrementByAmount"
  /\ state.counter.value = -2
  /\ Entry("bulbasaur").status = "fulfilled"
  /\ Entry("missingno").status = "rejected"

Failure(n) == HookResult(Entry(n)).error # Undefined

\* C6 as stated: no operation can fail, so no reachable state carries a
\* user-visible failure.
C6_NoFailureEver == \A n \in Names : ~Failure(n)

\* C6 as amended: dispatching increment, decrement or incrementByAmount never
\* produces an error outcome in any store state; the getPokemonByName query can
\* fail, and a failure appears in a state only through the rejection of a request
\* for that argument.
C6_FailureOnlyByRejection ==
  [][flip' # flip =>
       \A n \in Names :
         /\ (\E i \in DOMAIN dispatched' : dispatched'[i].type \in CounterTypes)
              => HookResult(Entry(n)').error = HookResult(Entry(n)).error
         /\ (Failure(n)' /\ ~Failure(n))
              => \E i \in DOMAIN dispatched' :
                   /\ dispatched'[i].type = "pokemonApi/executeQuery/rejected"
                   /\ dispatched'[i].arg = n]_vars

C6_Witness ==
  /\ op = "settle"
  /\ dispatched[1].type = "pokemonApi/executeQuery/rejected"
  /\ dispatched[1].arg = "missingno"
  /\ HookResult(Entry("missingno")) =
       [data |-> Undefined, error |-> "FETCH_ERROR", isLoading |-> FALSE]
  /\ state.counter.value = 2

FirstRequestOutstanding(n) == Request(n) \in inflight /\ ~settled[n]

Silenced == {r \in linted : \A m \in report : m.rule # r}

Reported(r, sev) == [rule |-> r, severity |-> sev] \in report

\* C7 as stated: among the rule overrides one rule is disabled and two others
\* are escalated, no-console to warning and prettier/prettier to error: of the
\* overridden rules a file breaks, at most one goes unreported.
C7_OneRuleDisabled ==
  /\ Cardinality(Silenced \cap DOMAIN rules) <= 1
  /\ "no-console" \in linted => Reported("no-console", 1)
  /\ "prettier/prettier" \in linted => Reported("prettier/prettier", 2)

\* C7 as amended: the configuration extends a fixed list of eight named rule sets
\* and overrides five rules: three are disabled (react/react-in-jsx-scope,
\* require-jsdoc, linebreak-style) and two others are set to a severity, no-console
\* to warning and prettier/prettier to error, whatever the rule sets say.
C7_ThreeRulesDisabled ==
  /\ Len(extends) = 8
  /\ DOMAIN rules = {"react/react-in-jsx-scope", "require-jsdoc", "linebreak-style",
                     "no-console", "prettier/prettier"}
  /\ \A r \in {"react/react-in-jsx-scope", "require-jsdoc", "linebreak-style"} :
       r \in linted => r \in Silenced
  /\ "no-console" \in linted => Reported("no-console", 1)
  /\ "prettier/prettier" \in linted => Reported("prettier/prettier", 2)
  /\ \A m \in report : m.rule \in linted /\ m.severity \in {1, 2}
  /\ \A m \in report : m.rule \notin DOMAIN rules => m.severity = presets[m.rule]

C7_Witness ==
  /\ linted = LintRules
  /\ presets = [r \in LintRules |-> IF r = "prettier/prettier" THEN 0 ELSE 2]
  /\ report = {[rule |-> "no-console", severity |-> 1],
               [rule |-> "prettier/prettier", severity |-> 2],
               [rule |-> "no-unused-vars", severity |-> 2]}

====
